---- MODULE Spec2Model ----
(***************************************************************************)
(* Model of OctoCal: the session parser (session_parser.py), the session   *)
(* tracker and the cycle controller (main.py), the notification windows    *)
(* (notifier.py) and the calendar file written by ical_generator.py.       *)
(*                                                                         *)
(* Time is an integer number of minutes since 00:00 of 1 January 2024.     *)
(* The parser is modelled on what it reads in a session string (its shape):*)
(* how many comma-separated parts it has, the time tokens separated by     *)
(* '-', and the day and month of its date phrase.                          *)
(***************************************************************************)
EXTENDS Integers, Sequences, FiniteSets, TLC

VARIABLES
    now,                 \* datetime.now(), in minutes
    ctl,                 \* position of the process: "down", "init", "loop"
    minutes_since_scrape,\* run(): local counter of the loop
    tracker,             \* SessionTracker: its four sets
    state_file,          \* content of output/state.json
    wpc,                 \* position inside a tracker mutation (SpecCrash)
    sessions,            \* OctopusEnergyMonitor.sessions (a list)
    ical_file,           \* content of the .ics file
    config,              \* the configuration the process was started with
    sent,                \* history: calls of Notifier.notify_* per descriptor
    hist,                \* history of the tracker calls and of the store
    last,                \* history: what the last cycle did
    p_in,                \* SpecParse: the input of parse() (shape, now)
    p_out                \* SpecParse: the value parse() produced

vars == <<now, ctl, minutes_since_scrape, tracker, state_file, wpc, sessions,
          ical_file, config, sent, hist, last, p_in, p_out>>

-----------------------------------------------------------------------------
(* Calendar arithmetic of datetime                                         *)

IsLeap(y) == (y % 4 = 0) /\ ((y % 100 # 0) \/ (y % 400 = 0))

DaysInMonth(m, y) ==
    IF m = 2 THEN (IF IsLeap(y) THEN 29 ELSE 28)
    ELSE IF m \in {4, 6, 9, 11} THEN 30 ELSE 31

\* days of the year before the first of month m
DaysBeforeMonth(m, y) ==
    <<0, 31, 59, 90, 120, 151, 181, 212, 243, 273, 304, 334>>[m]
        + (IF m > 2 /\ IsLeap(y) THEN 1 ELSE 0)

DaysInYear(y) == IF IsLeap(y) THEN 366 ELSE 365

RECURSIVE DaysBeforeYear(_)
DaysBeforeYear(y) ==
    IF y <= 2024 THEN 0 ELSE DaysBeforeYear(y - 1) + DaysInYear(y - 1)

\* datetime(y, m, d, h, mi) as minutes since the epoch
Instant(y, m, d, h, mi) ==
    ((DaysBeforeYear(y) + DaysBeforeMonth(m, y) + (d - 1)) * 24 + h) * 60 + mi

RECURSIVE YearFrom(_, _)
YearFrom(t, y) ==
    IF t < Instant(y + 1, 1, 1, 0, 0) THEN y ELSE YearFrom(t, y + 1)

\* datetime.year of an instant
YearOf(t) == YearFrom(t, 2024)

\* datetime.date(): the number of the calendar day of instant t
DateOf(t) == t \div (24 * 60)

-----------------------------------------------------------------------------
(* session_parser.py                                                       *)

\* a time token without leading digits: re.match(r'(\d+)(am|pm)?') fails
NoDigits == [h |-> -1, ap |-> ""]

None == [k |-> "none"]

Raised == [k |-> "raise"]

Ok(v) == [k |-> "ok", v |-> v]

\* lines 99-106: the hour in 24-hour form
Hour24(tok) ==
    LET ampm == IF tok.ap # "" THEN tok.ap
                ELSE (IF tok.h = 12 THEN "pm" ELSE "am")
    IN  IF ampm = "pm" /\ tok.h # 12 THEN tok.h + 12
        ELSE IF ampm = "am" /\ tok.h = 12 THEN 0
        ELSE tok.h

\* datetime.strptime(f"{date} {year}", '%A %d %B %Y') succeeds: the month name
\* is a month (m = 0 stands for a word that is none) and the day exists in
\* that month of that year; the weekday name is not compared with the date
StrptimeOk(date, y) ==
    /\ date.m \in 1..12
    /\ date.d >= 1
    /\ date.d <= DaysInMonth(date.m, y)

\* lines 132-141: a result in the past is moved to next year when the date
\* exists there; otherwise it is kept
RollForward(result, hour, date, current_year, t) ==
    IF result < t /\ StrptimeOk(date, current_year + 1)
    THEN Ok(Instant(current_year + 1, date.m, date.d, hour, 0))
    ELSE Ok(result)

\* line 130: date_obj.replace(hour=hour) raises ValueError unless 0 <= hour <= 23
Replace(hour, date, y, current_year, t) ==
    IF hour > 23 THEN Raised
    ELSE RollForward(Instant(y, date.m, date.d, hour, 0), hour, date,
                     current_year, t)

\* lines 115-127: the date in the current year, else in the next, else None
ResolveDate(hour, date, current_year, t) ==
    IF StrptimeOk(date, current_year)
    THEN Replace(hour, date, current_year, current_year, t)
    ELSE IF StrptimeOk(date, current_year + 1)
    THEN Replace(hour, date, current_year + 1, current_year, t)
    ELSE None

\* SessionParser._parse_datetime: Ok(instant), None, or Raised
ParseDatetime(tok, date, t) ==
    IF tok.h < 0 THEN None
    ELSE ResolveDate(Hour24(tok), date, YearOf(t), t)

ParseStartTime(x, t) == ParseDatetime(x.toks[1], x.date, t)

ParseEndTime(x, t) ==
    IF Len(x.toks) < 2 THEN Raised           \* split('-')[1]: IndexError
    ELSE ParseDatetime(x.toks[2], x.date, t)

\* lines 61-69: None if either is None
BothTimes(start_time, end_time) ==
    IF end_time.k = "raise" THEN Raised
    ELSE IF start_time.k = "none" \/ end_time.k = "none" THEN None
    ELSE Ok([start_time |-> start_time.v, end_time |-> end_time.v])

\* lines 58-59: the start is parsed first; an exception there leaves parse
AfterStart(start_time, x, t) ==
    IF start_time.k = "raise" THEN Raised
    ELSE BothTimes(start_time, ParseEndTime(x, t))

\* SessionParser.parse on the shape x of a string: Ok(the two instants), None,
\* or Raised (an exception leaves parse)
ParseTimes(x, t) ==
    IF x.parts # 2 THEN None
    ELSE AfterStart(ParseStartTime(x, t), x, t)

Shape(toks, day, month) ==
    [parts |-> 2, toks |-> toks, date |-> [d |-> day, m |-> month]]

\* the session strings of the process model, and what the parser reads in them
D1 == "12-1pm, Saturday 4th October"

DNone == "12-2pm, Foo 4th Bar"

DRaise == "25-26pm, Saturday 4th October"

Descs == {D1, DNone, DRaise}

\* a second session, three weeks after D1 (retention model)
D2 == "12-1pm, Saturday 25th October"

\* a session that starts when D1 ends (notification sink model)
D3 == "1pm-2pm, Saturday 4th October"

ShapeOf(s) ==
    CASE s = D1 -> Shape(<<[h |-> 12, ap |-> ""], [h |-> 1, ap |-> "pm"]>>, 4, 10)
      [] s = D2 -> Shape(<<[h |-> 12, ap |-> ""], [h |-> 1, ap |-> "pm"]>>, 25, 10)
      [] s = D3 -> Shape(<<[h |-> 1, ap |-> "pm"], [h |-> 2, ap |-> "pm"]>>, 4, 10)
      [] s = DNone -> Shape(<<[h |-> 12, ap |-> ""], [h |-> 2, ap |-> "pm"]>>, 4, 0)
      [] s = DRaise -> Shape(<<[h |-> 25, ap |-> ""], [h |-> 26, ap |-> "pm"]>>, 4, 10)

Session(s, st, et) == [session_str |-> s, start_time |-> st, end_time |-> et]

MakeSession(s, r) ==
    IF r.k = "ok" THEN Ok(Session(s, r.v.start_time, r.v.end_time)) ELSE r

-----------------------------------------------------------------------------
(* main.py: SessionTracker                                                 *)

Fields == <<"seen_sessions", "notified_upcoming", "notified_start",
            "notified_end">>

\* SessionTracker.__init__, lines 86-89: the four sets, empty
EmptyTracker ==
    [seen_sessions |-> {}, notified_upcoming |-> {}, notified_start |-> {},
     notified_end |-> {}]

\* Contents of the state file.  k = "missing": no file; "garbage": not JSON
\* (an empty or cut-off file); "notdict": JSON whose top level is no object;
\* "dict": a JSON object, whose fields named in `malformed` hold a value that
\* set() rejects (a number, null) and whose other fields hold a list of strings
\* (an absent key reads as the empty list, data.get(key, [])).
MissingFile == [k |-> "missing"]

GarbageFile == [k |-> "garbage"]

NotDictFile == [k |-> "notdict"]

DictFile(t, bad) ==
    [k |-> "dict", seen_sessions |-> t.seen_sessions,
     notified_upcoming |-> t.notified_upcoming,
     notified_start |-> t.notified_start, notified_end |-> t.notified_end,
     malformed |-> bad]

\* lines 98-101 run in order inside one try: the first malformed field raises,
\* the fields assigned before it stay assigned and the later ones stay empty
RECURSIVE LoadFields(_, _, _)
LoadFields(t, f, i) ==
    IF i > Len(Fields) THEN t
    ELSE IF Fields[i] \in f.malformed THEN t
    ELSE LoadFields([t EXCEPT ![Fields[i]] = f[Fields[i]]], f, i + 1)

\* a _load_state that does not read the seen sessions
LoadStateSkipsSeen(f) ==
    IF f.k # "dict" THEN EmptyTracker
    ELSE LoadFields(EmptyTracker, [f EXCEPT !.seen_sessions = {}], 1)

\* SessionTracker._load_state on a fresh tracker
LoadState(f) ==
    IF f.k # "dict" THEN EmptyTracker
    ELSE LoadFields(EmptyTracker, f, 1)

\* a _save_state that leaves the upcoming flags out of the file
SaveStateNoUpcoming(t) == DictFile([t EXCEPT !.notified_upcoming = {}], {})

\* SessionTracker._save_state, when the write completes
SaveState(t) == DictFile(t, {})

IsNewSession(t, d) == d \notin t.seen_sessions

MarkSeen(t, d) == [t EXCEPT !.seen_sessions = @ \cup {d}]

TrackerShouldNotifyUpcoming(t, d) == d \notin t.notified_upcoming

MarkNotifiedUpcoming(t, d) == [t EXCEPT !.notified_upcoming = @ \cup {d}]

TrackerShouldNotifyStart(t, d) == d \notin t.notified_start

\* a mark_notified_start that assigns the set instead of adding to it
MarkNotifiedStartAssigns(t, d) == [t EXCEPT !.notified_start = {d}]

MarkNotifiedStart(t, d) == [t EXCEPT !.notified_start = @ \cup {d}]

TrackerShouldNotifyEnd(t, d) == d \notin t.notified_end

MarkNotifiedEnd(t, d) == [t EXCEPT !.notified_end = @ \cup {d}]

\* the in-memory part of the mutating call named op
Mutate(t, op, d) ==
    CASE op = "mark_seen" -> MarkSeen(t, d)
      [] op = "mark_notified_upcoming" -> MarkNotifiedUpcoming(t, d)
      [] op = "mark_notified_start" -> MarkNotifiedStart(t, d)
      [] op = "mark_notified_end" -> MarkNotifiedEnd(t, d)

Ops == {"mark_seen", "mark_notified_upcoming", "mark_notified_start",
        "mark_notified_end"}

-----------------------------------------------------------------------------
(* notifier.py: the windows; main.py: configuration defaults                *)

upcoming_hours == 1

notification_interval == 4

scrape_interval == 12

days_to_keep == 7

\* 300 seconds
Tolerance == 5

Abs(x) == IF x < 0 THEN 0 - x ELSE x

\* a window that opens only once the lead time is reached
ShouldNotifyUpcomingOneSided(cfg, session, t) ==
    /\ cfg.enabled
    /\ t - (session.start_time - upcoming_hours * 60) >= 0
    /\ t - (session.start_time - upcoming_hours * 60) < Tolerance

ShouldNotifyUpcoming(cfg, session, t) ==
    /\ cfg.enabled
    /\ Abs(t - (session.start_time - upcoming_hours * 60)) < Tolerance

\* a start window that includes its two ends
ShouldNotifyStartInclusive(cfg, session, t) ==
    /\ cfg.enabled /\ cfg.notify_start
    /\ Abs(t - session.start_time) <= Tolerance

ShouldNotifyStart(cfg, session, t) ==
    /\ cfg.enabled /\ cfg.notify_start
    /\ Abs(t - session.start_time) < Tolerance

ShouldNotifyEnd(cfg, session, t) ==
    /\ cfg.enabled /\ cfg.notify_end
    /\ Abs(t - session.end_time) < Tolerance

-----------------------------------------------------------------------------
(* ical_generator.py and main.py: the calendar file                        *)

NoCalendar == [exists |-> FALSE, events |-> <<>>]

\* lines 57-67: the event of a session; the uid is the start time's text
Event(session) ==
    [uid |-> session.start_time, dtstart |-> session.start_time,
     dtend |-> session.end_time, description |-> session.session_str]

\* ICalGenerator.generate: with no sessions it returns False before it opens
\* the file (lines 41-43); otherwise it writes the whole calendar
Generate(list, file) ==
    IF list = <<>> THEN file
    ELSE [exists |-> TRUE, events |-> [i \in 1..Len(list) |-> Event(list[i])]]

KeptByRetention(session, t) == session.end_time > t - days_to_keep * 24 * 60

\* update_ical, lines 277-286
Filtered(cfg, list, t) ==
    IF cfg.cleanup_enabled
    THEN SelectSeq(list, LAMBDA session: KeptByRetention(session, t))
    ELSE list

\* update_ical: both branches (lines 297-304 and 313) call generate
UpdateIcal(cfg, list, t, file) == Generate(Filtered(cfg, list, t), file)

\* cleanup_old_sessions
CleanupOldSessions(list, t) == SelectSeq(list, LAMBDA session: session.end_time > t)

-----------------------------------------------------------------------------
(* The clock of the process model, and parse() over it                     *)

\* the process is first started at 10:48 on 4 October 2025
T0 == Instant(2025, 10, 4, 10, 48)

MaxTicks == 35

MaxNow == T0 + MaxTicks * notification_interval

\* the upcoming milestone of D1: one hour before 12:00 on 4 October 2025
UpcomingTarget == Instant(2025, 10, 4, 11, 0)

MaxLead == 12

\* the instants of the timer model: from MaxLead + Tolerance minutes before
\* the upcoming target until MaxLead minutes after it
TimerClock == (UpcomingTarget - MaxLead - Tolerance)..(UpcomingTarget + MaxLead)

\* the instants of the retention model: every 12 hours from 11:00 on
\* 4 October 2025
RetentionStep == 12 * 60

MaxRetentionTicks == 18

RetentionClock ==
    {Instant(2025, 10, 4, 11, 0) + k * RetentionStep : k \in 0..MaxRetentionTicks}

\* the instants at which a cycle can run
Clock ==
    {T0 + k * notification_interval : k \in 0..MaxTicks}
    \cup TimerClock \cup RetentionClock

\* SessionParser.parse, tabulated over the clock and the session strings
ParseAt ==
    [t \in Clock |->
        [s \in Descs \cup {D2, D3} |-> MakeSession(s, ParseTimes(ShapeOf(s), t))]]

\* SessionParser.parse: Ok(session), None, or Raised
Parse(s, t) == ParseAt[t][s]

-----------------------------------------------------------------------------
(* main.py: OctopusEnergyMonitor.  A cycle works on the record m of what it *)
(* can change: the tracker and its file, the working set, the calendar     *)
(* file, the count of notifications, and whether an exception is in flight *)

MaxSent == 2

Milestones == {"new", "upcoming", "start", "end"}

\* Notifier.notify_*: one more call for descriptor d
\* send_notification, lines 79-92: an exception of the sink is caught and
\* logged, and False is returned
SendNotification(m, kind) == kind \notin m.failing

Notify(m, kind, d) ==
    [m EXCEPT !.sent[d][kind] = IF @ < MaxSent THEN @ + 1 ELSE @,
              !.attempted = @ \cup {<<d, kind>>},
              !.failed = IF SendNotification(m, kind) THEN @
                         ELSE @ \cup {<<d, kind>>}]

\* a mutating tracker call: the set changes and _save_state writes the file
Mark(m, op, d) ==
    [m EXCEPT !.tracker = Mutate(@, op, d),
              !.state_file = SaveState(Mutate(m.tracker, op, d))]

Known(list, d) == \E i \in 1..Len(list) : list[i].session_str = d

\* scrape_sessions, lines 249-256: a new descriptor that resolved
NotifyNew(m, cfg, session_type, d) ==
    IF session_type = "next" /\ cfg.enabled THEN Notify(m, "new", d) ELSE m

NewSession(m, cfg, session_type, session) ==
    NotifyNew(Mark([m EXCEPT !.sessions = Append(@, session)],
                   "mark_seen", session.session_str),
              cfg, session_type, session.session_str)

\* an else branch that notifies like the branch of a new descriptor
SeenSessionNotifies(m, cfg, session_type, session) ==
    NotifyNew(IF ~Known(m.sessions, session.session_str)
              THEN [m EXCEPT !.sessions = Append(@, session)]
              ELSE m,
              cfg, session_type, session.session_str)

\* an else branch that appends without looking into the working set
SeenSessionAppends(m, cfg, session_type, session) ==
    [m EXCEPT !.sessions = Append(@, session)]

\* scrape_sessions, lines 261-263: a descriptor seen before that resolved
SeenSession(m, cfg, session_type, session) ==
    IF ~Known(m.sessions, session.session_str)
    THEN [m EXCEPT !.sessions = Append(@, session)]
    ELSE m

\* scrape_sessions, lines 245-263: one descriptor d, r being what parse gave
ScrapeOne(m, cfg, session_type, d, r) ==
    IF r.k = "raise" THEN [m EXCEPT !.raised = TRUE]
    ELSE IF IsNewSession(m.tracker, d)
    THEN (IF r.k = "ok" THEN NewSession(m, cfg, session_type, r.v) ELSE m)
    ELSE (IF r.k = "ok" THEN SeenSession(m, cfg, session_type, r.v) ELSE m)

\* scrape_sessions, lines 244-263: the loop; an exception of parse ends it
RECURSIVE ScrapeLoop(_, _, _, _, _)
ScrapeLoop(m, cfg, session_type, strs, t) ==
    IF strs = <<>> \/ m.raised THEN m
    ELSE ScrapeLoop(ScrapeOne(m, cfg, session_type, Head(strs),
                              Parse(Head(strs), t)),
                    cfg, session_type, Tail(strs), t)

\* scrape_sessions, given what scraper.scrape() returned
ScrapeSessions(m, cfg, inp, t) ==
    ScrapeLoop(m, cfg, inp.session_type, inp.session_strings, t)

CheckUpcoming(m, cfg, session, t) ==
    IF /\ TrackerShouldNotifyUpcoming(m.tracker, session.session_str)
       /\ ShouldNotifyUpcoming(cfg, session, t)
    THEN Mark(Notify(m, "upcoming", session.session_str),
              "mark_notified_upcoming", session.session_str)
    ELSE m

\* the start flag is marked only when the send succeeded
CheckStartRetries(m, cfg, session, t) ==
    IF /\ TrackerShouldNotifyStart(m.tracker, session.session_str)
       /\ ShouldNotifyStart(cfg, session, t)
    THEN IF SendNotification(m, "start")
         THEN Mark(Notify(m, "start", session.session_str),
                   "mark_notified_start", session.session_str)
         ELSE Notify(m, "start", session.session_str)
    ELSE m

CheckStart(m, cfg, session, t) ==
    IF /\ TrackerShouldNotifyStart(m.tracker, session.session_str)
       /\ ShouldNotifyStart(cfg, session, t)
    THEN Mark(Notify(m, "start", session.session_str),
              "mark_notified_start", session.session_str)
    ELSE m

CheckEnd(m, cfg, session, t) ==
    IF /\ TrackerShouldNotifyEnd(m.tracker, session.session_str)
       /\ ShouldNotifyEnd(cfg, session, t)
    THEN Mark(Notify(m, "end", session.session_str),
              "mark_notified_end", session.session_str)
    ELSE m

\* check_notifications, lines 328-348: one session of the working set
CheckOne(m, cfg, session, t) ==
    IF session.end_time < t THEN m
    ELSE CheckEnd(CheckStart(CheckUpcoming(m, cfg, session, t),
                             cfg, session, t), cfg, session, t)

RECURSIVE CheckLoop(_, _, _, _)
CheckLoop(m, cfg, list, t) ==
    IF list = <<>> THEN m
    ELSE CheckLoop(CheckOne(m, cfg, Head(list), t), cfg, Tail(list), t)

\* check_notifications
CheckNotifications(m, cfg, t) ==
    IF ~cfg.enabled THEN m ELSE CheckLoop(m, cfg, m.sessions, t)

\* run_scrape_cycle, lines 366-370, unless scrape_sessions raised
UpdateAndCleanup(m, cfg, t) ==
    IF m.raised THEN m
    ELSE [m EXCEPT !.ical_file = UpdateIcal(cfg, m.sessions, t, @),
                   !.sessions = CleanupOldSessions(@, t)]

\* run_scrape_cycle: the try block.  inp.exc = "scrape" says that
\* scraper.scrape() (line 234) raises, for a reason outside the model; parse
\* raising is computed, not chosen
RunScrapeCycle(m, cfg, inp, t) ==
    IF inp.exc = "scrape" THEN [m EXCEPT !.raised = TRUE]
    ELSE UpdateAndCleanup(ScrapeSessions(m, cfg, inp, t), cfg, t)

\* run_notification_cycle, line 382.  inp.exc = "ical" says that update_ical
\* raises before it writes, for a reason outside the model
UpdateAfterCheck(m, cfg, inp, t) ==
    IF inp.exc = "ical" THEN [m EXCEPT !.raised = TRUE]
    ELSE [m EXCEPT !.ical_file = UpdateIcal(cfg, m.sessions, t, @)]

\* run_notification_cycle: the try block
RunNotificationCycle(m, cfg, inp, t) ==
    UpdateAfterCheck(CheckNotifications(m, cfg, t), cfg, inp, t)

\* a cycle whose exception is not caught: the process goes down
AfterCycleUncaught(raised) == IF raised THEN "down" ELSE "loop"

\* the except clauses of lines 372 and 384: the exception is logged and the
\* caller goes on; the value is the position of the process afterwards
AfterCycle(raised) == "loop"

-----------------------------------------------------------------------------
(* The process: construction, run(), and restarts                          *)

MaxBatch == 2

\* the lists over S of at most n elements, no element twice
RECURSIVE NoDupSeqs(_, _)
NoDupSeqs(S, n) ==
    IF n = 0 THEN {<<>>}
    ELSE LET shorter == NoDupSeqs(S, n - 1)
         IN  shorter \cup
             UNION {{Append(q, d) : d \in S \ {q[i] : i \in 1..Len(q)}} :
                    q \in shorter}

\* what OctopusScraper.scrape() can return: (None, []) or a classification
\* with a list that list(set(...)) has left without duplicates
ScrapeResults ==
    {[session_type |-> "none", session_strings |-> <<>>]} \cup
    [session_type : {"next", "last"}, session_strings : NoDupSeqs(Descs, MaxBatch)]

\* a scrape cycle's input: what scrape() returns, or that it raises
ScrapeInputs ==
    {[exc |-> "none", session_type |-> r.session_type,
      session_strings |-> r.session_strings] : r \in ScrapeResults}
    \cup {[exc |-> "scrape", session_type |-> "none", session_strings |-> <<>>]}

NotifyInputs == {[exc |-> e] : e \in {"none", "ical"}}

Configs ==
    {[enabled |-> TRUE, notify_start |-> TRUE, notify_end |-> TRUE,
      cleanup_enabled |-> TRUE],
     [enabled |-> FALSE, notify_start |-> TRUE, notify_end |-> TRUE,
      cleanup_enabled |-> FALSE]}

\* the record a cycle works on, from the state
M ==
    [tracker |-> tracker, state_file |-> state_file, sessions |-> sessions,
     sent |-> sent, ical_file |-> ical_file, raised |-> FALSE,
     failing |-> {}, attempted |-> {}, failed |-> {}]

Commit(m) ==
    /\ tracker' = m.tracker
    /\ state_file' = m.state_file
    /\ sessions' = m.sessions
    /\ sent' = m.sent
    /\ ical_file' = m.ical_file

Strs(list) == {list[i].session_str : i \in 1..Len(list)}

NoCycle ==
    [cycle |-> "none", raised |-> FALSE, prev_raised |-> FALSE,
     parse_failed |-> {}, parse_ok |-> {}, touched |-> {}, done |-> {},
     suppressed |-> {},
     ical_ran |-> FALSE, filtered_empty |-> FALSE]

\* history: loaded is the tracker as the last construction loaded it; first
\* says in what kind of batch a descriptor was first marked seen; marked
\* holds the descriptors each mark_* call was made with; durable is what the
\* store held when the mutation in flight began
Hist0 ==
    [loaded |-> EmptyTracker, first |-> [d \in Descs |-> "never"],
     marked |-> EmptyTracker, durable |-> EmptyTracker,
     after_crash |-> FALSE, created |-> TRUE]

Sent0 == [d \in Descs |-> [k \in Milestones |-> 0]]

Batch(inp) == {inp.session_strings[i] : i \in 1..Len(inp.session_strings)}

\* history of a scrape cycle at time t with input inp: m1 is the record when
\* scrape_sessions returned or raised, m the record at the end of the cycle
ScrapeRecord(inp, t, m1, m) ==
    [cycle |-> "scrape", raised |-> m.raised, prev_raised |-> last.raised,
     parse_failed |-> {d \in Batch(inp) : Parse(d, t).k # "ok"},
     parse_ok |-> {d \in Batch(inp) : Parse(d, t).k = "ok"},
     touched |-> (m1.tracker.seen_sessions \ tracker.seen_sessions)
                 \cup (Strs(m1.sessions) \ Strs(sessions)),
     done |-> m1.tracker.seen_sessions \cap Strs(m1.sessions),
     suppressed |-> {},
     ical_ran |-> ~m.raised,
     filtered_empty |-> ~m.raised /\ Filtered(config, m1.sessions, t) = <<>>]

\* the record when scrape_sessions returned or raised
AfterScrape(inp, t) ==
    IF inp.exc = "scrape" THEN M ELSE ScrapeSessions(M, config, inp, t)

\* the milestones whose window is open at t for a session of the working set
\* that is not over, and that the tracker's flag keeps from being sent
Suppressed(t) ==
    IF ~config.enabled THEN {}
    ELSE
      {k \in {"upcoming", "start", "end"} :
         \E i \in 1..Len(sessions) :
            /\ sessions[i].end_time >= t
            /\ CASE k = "upcoming" ->
                      /\ ShouldNotifyUpcoming(config, sessions[i], t)
                      /\ sessions[i].session_str \in tracker.notified_upcoming
                 [] k = "start" ->
                      /\ ShouldNotifyStart(config, sessions[i], t)
                      /\ sessions[i].session_str \in tracker.notified_start
                 [] k = "end" ->
                      /\ ShouldNotifyEnd(config, sessions[i], t)
                      /\ sessions[i].session_str \in tracker.notified_end}

NotifyRecord(inp, t, m) ==
    [NoCycle EXCEPT !.cycle = "notify", !.raised = m.raised,
                    !.prev_raised = last.raised, !.ical_ran = ~m.raised,
                    !.suppressed = Suppressed(t),
                    !.filtered_empty =
                        ~m.raised /\ Filtered(config, m.sessions, t) = <<>>]

FirstSeen(inp, m) ==
    [d \in Descs |->
        IF d \in m.tracker.seen_sessions \ tracker.seen_sessions
        THEN (IF inp.session_type = "next" /\ config.enabled
              THEN "next" ELSE "other")
        ELSE hist.first[d]]

\* OctopusEnergyMonitor.__init__: the state after construction, before run()
Init ==
    /\ now = T0
    /\ ctl = "init"
    /\ minutes_since_scrape = 0
    /\ state_file = MissingFile
    /\ tracker = LoadState(MissingFile)
    /\ wpc = "idle"
    /\ sessions = <<>>
    /\ ical_file = NoCalendar
    /\ config \in Configs
    /\ sent = Sent0
    /\ hist = Hist0
    /\ last = NoCycle
    /\ p_in = [x |-> ShapeOf(D1), t |-> T0]
    /\ p_out = [k |-> "unset"]

\* run(), lines 389-401 (and main() in single-run mode): the initial scrape
Start ==
    /\ ctl = "init"
    /\ \E inp \in ScrapeInputs :
         \E m \in {RunScrapeCycle(M, config, inp, now)} :
             /\ Commit(m)
             /\ ctl' = AfterCycle(m.raised)
             /\ last' = ScrapeRecord(inp, now, AfterScrape(inp, now), m)
             /\ hist' = [hist EXCEPT !.first = FirstSeen(inp, m)]
    /\ minutes_since_scrape' = scrape_interval
    /\ UNCHANGED <<now, config, wpc, p_in, p_out>>

\* run(), lines 403-414: sleep, then the scrape cycle when it is due
LoopScrape ==
    /\ ctl = "loop"
    /\ now + notification_interval <= MaxNow
    /\ minutes_since_scrape + notification_interval >= scrape_interval
    /\ now' = now + notification_interval
    /\ \E inp \in ScrapeInputs :
         \E m \in {RunScrapeCycle(M, config, inp, now + notification_interval)} :
             /\ Commit(m)
             /\ ctl' = AfterCycle(m.raised)
             /\ last' = ScrapeRecord(inp, now + notification_interval, AfterScrape(inp, now + notification_interval), m)
             /\ hist' = [hist EXCEPT !.first = FirstSeen(inp, m)]
    /\ minutes_since_scrape' = 0
    /\ UNCHANGED <<config, wpc, p_in, p_out>>

\* run(), lines 403-418: sleep, then the notification cycle otherwise
LoopNotify ==
    /\ ctl = "loop"
    /\ now + notification_interval <= MaxNow
    /\ minutes_since_scrape + notification_interval < scrape_interval
    /\ now' = now + notification_interval
    /\ \E inp \in NotifyInputs :
         \E m \in {RunNotificationCycle(M, config, inp, now + notification_interval)} :
             /\ Commit(m)
             /\ ctl' = AfterCycle(m.raised)
             /\ last' = NotifyRecord(inp, now + notification_interval, m)
    /\ minutes_since_scrape' = minutes_since_scrape + notification_interval
    /\ UNCHANGED <<config, wpc, hist, p_in, p_out>>

\* the process ends between two cycles and is started again on the same
\* output directory: __init__ builds a new tracker from the state file and an
\* empty working set
Restart ==
    /\ ctl \in {"loop", "down"}
    /\ ctl' = "init"
    /\ tracker' = LoadState(state_file)
    /\ sessions' = <<>>
    /\ minutes_since_scrape' = 0
    /\ last' = NoCycle
    /\ hist' = [hist EXCEPT !.loaded = LoadState(state_file)]
    /\ UNCHANGED <<now, state_file, wpc, ical_file, config, sent, p_in, p_out>>

Next == Start \/ LoopScrape \/ LoopNotify \/ Restart

Spec == Init /\ [][Next]_vars

-----------------------------------------------------------------------------
(* Properties of the monitor under Spec.  Scope: a cycle is one step, the  *)
(* process is restarted only between cycles, and every write of the state  *)
(* file completes.                                                         *)

\* C1: for every descriptor, each of the upcoming, start and end
\* notifications is sent at most once, over all cycles and restarts, also
\* when its window is still open at later notification cycles.
C1_MilestoneAtMostOnce ==
    \A d \in Descs : \A k \in {"upcoming", "start", "end"} : sent[d][k] <= 1

\* C1 witness: a notification cycle finds the upcoming window open for a
\* session whose flag the tracker loaded from the store at the last restart;
\* the notification went out once, before that restart.
C1_Witness ==
    /\ last.cycle = "notify"
    /\ "upcoming" \in last.suppressed
    /\ D1 \in hist.loaded.notified_upcoming
    /\ sent[D1]["upcoming"] = 1

\* C2: the new-session notification is sent exactly once for a descriptor
\* first resolved in a batch classified next with notifications enabled,
\* never for another descriptor, and never again when it reappears.
C2_NewSessionExactlyOnce ==
    \A d \in Descs :
        /\ hist.first[d] = "next" => sent[d]["new"] = 1
        /\ hist.first[d] # "next" => sent[d]["new"] = 0

\* C2 witness: a descriptor first resolved in a next batch, and marked seen
\* in the store the process loaded, resolves again in a later scrape.
C2_Witness ==
    /\ last.cycle = "scrape"
    /\ D1 \in last.parse_ok
    /\ D1 \in last.done
    /\ D1 \in hist.loaded.seen_sessions
    /\ hist.first[D1] = "next"
    /\ sent[D1]["new"] = 1

\* C8: in a scrape whose batch holds a descriptor that fails to resolve,
\* that descriptor leaves no trace in the tracker or the working set, and
\* every descriptor of the batch that resolves is still processed.
C8_FailureSkippedOthersProcessed ==
    last.cycle = "scrape" /\ last.parse_failed # {} =>
        /\ last.parse_failed \cap last.touched = {}
        /\ last.parse_ok \subseteq last.done

\* C9: after an update of the calendar that ran with an empty filtered
\* set, the file holds no event of an earlier update.
C9_EmptyUpdateOverwrites ==
    last.ical_ran /\ last.filtered_empty => ical_file.events = <<>>

\* C10: an exception raised inside a cycle does not take the loop down:
\* the process is at the top of the loop again and, unless time is up, its
\* next cycle can run.
C10_LoopContinues ==
    last.raised =>
        /\ ctl = "loop"
        /\ now + notification_interval <= MaxNow =>
               ENABLED (LoopScrape \/ LoopNotify)

\* C10 witness: a cycle ran to its end right after a cycle that raised.
C10_Witness ==
    /\ last.cycle # "none"
    /\ last.prev_raised
    /\ ~last.raised
    /\ last.ical_ran

-----------------------------------------------------------------------------
(* The tracker alone: any sequence of its mutating calls, with restarts    *)
(* between calls.  Every write of the state file completes.                *)

TrackerDescs == {D1, DNone}

FieldOf(op) ==
    CASE op = "mark_seen" -> "seen_sessions"
      [] op = "mark_notified_upcoming" -> "notified_upcoming"
      [] op = "mark_notified_start" -> "notified_start"
      [] op = "mark_notified_end" -> "notified_end"

\* the variables of the monitor that the tracker does not touch
MonitorAtRest ==
    /\ now = T0
    /\ ctl = "init"
    /\ minutes_since_scrape = 0
    /\ sessions = <<>>
    /\ ical_file = NoCalendar
    /\ config \in {c \in Configs : c.enabled}
    /\ sent = Sent0
    /\ last = NoCycle
    /\ p_in = [x |-> ShapeOf(D1), t |-> T0]
    /\ p_out = [k |-> "unset"]

MonitorUnchanged ==
    UNCHANGED <<now, ctl, minutes_since_scrape, sessions, ical_file, config,
                sent, last, p_in, p_out>>

\* SessionTracker(state_file) on an output directory without a state file
InitTracker ==
    /\ MonitorAtRest
    /\ state_file = MissingFile
    /\ tracker = LoadState(MissingFile)
    /\ wpc = "idle"
    /\ hist = Hist0

\* mark_seen / mark_notified_*: the set grows and _save_state writes the file
TrackerCall ==
    \E op \in Ops : \E d \in TrackerDescs :
        \E m \in {Mark(M, op, d)} :
            /\ tracker' = m.tracker
            /\ state_file' = m.state_file
            /\ hist' = [hist EXCEPT !.marked[FieldOf(op)] = @ \cup {d}]
            /\ UNCHANGED wpc
            /\ MonitorUnchanged

\* the process ends and a new tracker is built from the state file
TrackerRestart ==
    /\ tracker' = LoadState(state_file)
    /\ hist' = [hist EXCEPT !.loaded = LoadState(state_file)]
    /\ UNCHANGED <<state_file, wpc>>
    /\ MonitorUnchanged

NextTracker == TrackerCall \/ TrackerRestart

SpecTracker == InitTracker /\ [][NextTracker]_vars

\* C3: is_new_session(d) is true until mark_seen(d) has been called and
\* false from then on, also for a tracker built after a restart.
C3_NewUntilMarkedSeen ==
    \A d \in TrackerDescs :
        IsNewSession(tracker, d) <=> d \notin hist.marked.seen_sessions

\* C3 witness: a tracker built from the store after mark_seen(D1) answers
\* false for D1 and true for a descriptor never marked.
C3_Witness ==
    /\ D1 \in hist.loaded.seen_sessions
    /\ ~IsNewSession(tracker, D1)
    /\ DNone \notin hist.marked.seen_sessions
    /\ IsNewSession(tracker, DNone)

Stored(f) == LoadState(f)

Grows(t1, t2) ==
    \A i \in 1..Len(Fields) : t1[Fields[i]] \subseteq t2[Fields[i]]

\* C4: no step takes a flag away, in memory or in the store, and once
\* mark_notified_X(d) was called should_notify_X(d) is false for good.
C4_FlagsMonotonic ==
    /\ [][Grows(tracker, tracker') /\ Grows(Stored(state_file), Stored(state_file'))]_vars
    /\ [](\A d \in TrackerDescs :
            /\ d \in hist.marked.notified_upcoming
                   => ~TrackerShouldNotifyUpcoming(tracker, d)
            /\ d \in hist.marked.notified_start
                   => ~TrackerShouldNotifyStart(tracker, d)
            /\ d \in hist.marked.notified_end
                   => ~TrackerShouldNotifyEnd(tracker, d))

\* C4 witness: both descriptors were marked for the start milestone, one
\* before and one after a restart, and both flags are set in memory and in
\* the store.
C4_Witness ==
    /\ hist.marked.notified_start = TrackerDescs
    /\ hist.loaded.notified_start = {D1}
    /\ tracker.notified_start = TrackerDescs
    /\ Stored(state_file).notified_start = TrackerDescs

-----------------------------------------------------------------------------
(* The tracker with a mutating call taken apart: the set is changed in     *)
(* memory, _save_state opens the state file for writing (which empties     *)
(* it), json.dump writes it.  The process can be killed between any two of *)
(* these and is then started again.                                        *)

InitCrash == InitTracker

\* mark_*: line 127 (or 137, 146, 154), the add in memory
BeginMutation ==
    /\ wpc = "idle"
    /\ \E op \in Ops : \E d \in TrackerDescs :
          tracker' = Mutate(tracker, op, d)
    /\ wpc' = "added"
    /\ hist' = [hist EXCEPT !.durable = LoadState(state_file),
                            !.after_crash = FALSE]
    /\ UNCHANGED state_file
    /\ MonitorUnchanged

\* _save_state, line 110: open(state_file, 'w') leaves an empty file
OpenForWrite ==
    /\ wpc = "added"
    /\ state_file' = GarbageFile
    /\ wpc' = "opened"
    /\ UNCHANGED <<tracker, hist>>
    /\ MonitorUnchanged

\* _save_state, lines 111-116: json.dump and the close of the file
CompleteWrite ==
    /\ wpc = "opened"
    /\ state_file' = SaveState(tracker)
    /\ wpc' = "idle"
    /\ UNCHANGED <<tracker, hist>>
    /\ MonitorUnchanged

\* the process is killed, wherever it is, and started again
Interrupt ==
    /\ tracker' = LoadState(state_file)
    /\ wpc' = "idle"
    /\ hist' = [hist EXCEPT !.after_crash = TRUE]
    /\ UNCHANGED state_file
    /\ MonitorUnchanged

NextCrash == BeginMutation \/ OpenForWrite \/ CompleteWrite \/ Interrupt

SpecCrash == InitCrash /\ [][NextCrash]_vars

\* C5: a tracker started after an interruption has every flag that the
\* store held when the interrupted mutation began.
C5_InterruptKeepsPersisted ==
    hist.after_crash => Grows(hist.durable, tracker)

-----------------------------------------------------------------------------
(* Construction of a tracker on a state file with any content              *)

StoredTrackers ==
    [seen_sessions : SUBSET TrackerDescs, notified_upcoming : SUBSET TrackerDescs,
     notified_start : SUBSET TrackerDescs, notified_end : SUBSET TrackerDescs]

\* at most one field of a JSON object is malformed
StoreContents ==
    {MissingFile, GarbageFile, NotDictFile}
    \cup {DictFile(t, {}) : t \in StoredTrackers}
    \cup {DictFile(t, {Fields[i]}) : t \in StoredTrackers, i \in 1..Len(Fields)}

Corrupt(f) == f.k \in {"garbage", "notdict"} \/ (f.k = "dict" /\ f.malformed # {})

InitLoad ==
    /\ MonitorAtRest
    /\ state_file \in StoreContents
    /\ tracker = EmptyTracker
    /\ wpc = "idle"
    /\ hist = [Hist0 EXCEPT !.created = FALSE]

\* SessionTracker.__init__, lines 85-90
CreateTracker ==
    /\ ~hist.created
    /\ tracker' = LoadState(state_file)
    /\ hist' = [hist EXCEPT !.created = TRUE, !.loaded = LoadState(state_file)]
    /\ UNCHANGED <<state_file, wpc>>
    /\ MonitorUnchanged

NextLoad == CreateTracker

SpecLoad == InitLoad /\ [][NextLoad]_vars

\* C6: a tracker created on a missing or corrupt store, a store with one
\* malformed field included, has all four sets empty.
C6_CorruptStoreLoadsEmpty ==
    hist.created /\ (state_file.k = "missing" \/ Corrupt(state_file))
        => tracker = EmptyTracker

-----------------------------------------------------------------------------
(* The parser alone: parse() applied once to any shape, at any instant     *)

ParseHours == {1, 2, 11, 12, 25}

ParseTokens == {NoDigits} \cup [h : ParseHours, ap : {"", "am", "pm"}]

ParseDates == {[d |-> 4, m |-> 10], [d |-> 29, m |-> 2], [d |-> 31, m |-> 4],
               [d |-> 4, m |-> 0]}

ParseShapes ==
    {[parts |-> 1, toks |-> <<>>, date |-> [d |-> 4, m |-> 10]]}
    \cup [parts : {2}, toks : {<<a>> : a \in ParseTokens}, date : ParseDates]
    \cup [parts : {2}, toks : ParseTokens \X ParseTokens, date : ParseDates]

ParseNows ==
    {Instant(2024, 6, 1, 0, 0),
     Instant(2025, 1, 1, 0, 0), Instant(2025, 10, 4, 11, 0),
     Instant(2025, 10, 4, 13, 0), Instant(2025, 10, 4, 15, 0),
     Instant(2027, 6, 1, 0, 0)}

\* the shape is one the scraper's pattern yields: one comma, two time
\* tokens that begin with digits, a date phrase of word, day, word
InGrammar(x) ==
    /\ x.parts = 2
    /\ Len(x.toks) = 2
    /\ x.toks[1].h >= 0
    /\ x.toks[2].h >= 0

InitParse ==
    /\ now = T0
    /\ ctl = "init"
    /\ minutes_since_scrape = 0
    /\ sessions = <<>>
    /\ ical_file = NoCalendar
    /\ config \in {c \in Configs : c.enabled}
    /\ sent = Sent0
    /\ last = NoCycle
    /\ state_file = MissingFile
    /\ tracker = EmptyTracker
    /\ wpc = "idle"
    /\ hist = Hist0
    /\ p_in \in [x : ParseShapes, t : ParseNows]
    /\ p_out = [k |-> "unset"]

\* SessionParser.parse(session_str) with datetime.now() = p_in.t
DoParse ==
    /\ p_out.k = "unset"
    /\ p_out' = ParseTimes(p_in.x, p_in.t)
    /\ UNCHANGED <<now, ctl, minutes_since_scrape, tracker, state_file, wpc,
                   sessions, ical_file, config, sent, hist, last, p_in>>

NextParse == DoParse

SpecParse == InitParse /\ [][NextParse]_vars

\* C7: a session resolved from a descriptor of the grammar ends after it
\* starts, whatever the instant of the resolution.
C7_EndAfterStart ==
    p_out.k = "ok" /\ InGrammar(p_in.x) => p_out.v.end_time > p_out.v.start_time

-----------------------------------------------------------------------------
(* The two timers of run(): the intervals are read from the configuration, *)
(* the process starts at any minute up to the opening of the upcoming      *)
(* window of D1, and every scrape returns D1 in a batch classified next.   *)

MaxInterval == 5

TimerConfigs ==
    [enabled : {TRUE}, notify_start : {TRUE}, notify_end : {TRUE},
     cleanup_enabled : {TRUE},
     notification_interval : 1..MaxInterval,
     scrape_interval : {3, 10, 60}]

TimerInput ==
    [exc |-> "none", session_type |-> "next", session_strings |-> <<D1>>]

TimerEnd == UpcomingTarget + MaxLead

\* history of the timer model: the cycle of the last tick, whether it was a
\* tick of the loop, when the last scrape cycle started, the minutes between
\* it and the scrape before, and whether check_notifications ran in the tick
TimerRecord(cycle, in_loop, scrape_at, since_scrape, checked) ==
    [cycle |-> cycle, in_loop |-> in_loop, scrape_at |-> scrape_at,
     since_scrape |-> since_scrape, checked |-> checked]

InitTimers ==
    /\ now \in (UpcomingTarget - MaxLead - Tolerance)..(UpcomingTarget - Tolerance)
    /\ ctl = "init"
    /\ minutes_since_scrape = 0
    /\ state_file = MissingFile
    /\ tracker = LoadState(MissingFile)
    /\ wpc = "idle"
    /\ sessions = <<>>
    /\ ical_file = NoCalendar
    /\ config \in TimerConfigs
    /\ sent = Sent0
    /\ hist = Hist0
    /\ last = TimerRecord("none", FALSE, 0, 0, FALSE)
    /\ p_in = [x |-> ShapeOf(D1), t |-> T0]
    /\ p_out = [k |-> "unset"]

\* run(), lines 389-401: the counter starts at scrape_interval, then the
\* initial scrape
TimerStart ==
    /\ ctl = "init"
    /\ \E m \in {RunScrapeCycle(M, config, TimerInput, now)} :
          /\ Commit(m)
          /\ ctl' = AfterCycle(m.raised)
    /\ minutes_since_scrape' = config.scrape_interval
    /\ last' = TimerRecord("scrape", FALSE, now, 0, FALSE)
    /\ UNCHANGED <<now, config, wpc, hist, p_in, p_out>>

\* run(), lines 403-414: sleep, add to the counter, scrape when it is due
TimerScrape ==
    /\ ctl = "loop"
    /\ now + config.notification_interval <= TimerEnd
    /\ minutes_since_scrape + config.notification_interval
          >= config.scrape_interval
    /\ now' = now + config.notification_interval
    /\ \E m \in {RunScrapeCycle(M, config, TimerInput,
                                now + config.notification_interval)} :
          /\ Commit(m)
          /\ ctl' = AfterCycle(m.raised)
    /\ minutes_since_scrape' = 0
    /\ last' = TimerRecord("scrape", TRUE, now + config.notification_interval,
                           now + config.notification_interval - last.scrape_at,
                           FALSE)
    /\ UNCHANGED <<config, wpc, hist, p_in, p_out>>

\* run(), lines 403-418: sleep, add to the counter, otherwise (else branch)
\* the notification cycle
TimerNotify ==
    /\ ctl = "loop"
    /\ now + config.notification_interval <= TimerEnd
    /\ minutes_since_scrape + config.notification_interval
          < config.scrape_interval
    /\ now' = now + config.notification_interval
    /\ \E m \in {RunNotificationCycle(M, config, [exc |-> "none"],
                                      now + config.notification_interval)} :
          /\ Commit(m)
          /\ ctl' = AfterCycle(m.raised)
    /\ minutes_since_scrape' = minutes_since_scrape + config.notification_interval
    /\ last' = TimerRecord("notify", TRUE, last.scrape_at, last.since_scrape,
                           TRUE)
    /\ UNCHANGED <<config, wpc, hist, p_in, p_out>>

NextTimers == TimerStart \/ TimerScrape \/ TimerNotify

SpecTimers == InitTimers /\ [][NextTimers]_vars

\* C11: with notifications enabled and a notification interval of at most
\* 5 minutes, a session that is in the working set before its upcoming
\* window opens has had its upcoming notification sent by the time the
\* window has closed.
C11_MilestoneNotMissed ==
    /\ ctl = "loop"
    /\ Known(sessions, D1)
    /\ now >= UpcomingTarget + Tolerance
    => sent[D1]["upcoming"] >= 1

\* C16: after the initial scrape a scrape cycle starts only when
\* scrape_interval minutes have passed since the scrape before it, and the
\* notification check runs at every tick of the loop, also at a tick at
\* which a scrape is due.
C16_IndependentTimers ==
    last.in_loop =>
        /\ last.checked
        /\ last.cycle = "scrape" => last.since_scrape >= config.scrape_interval

-----------------------------------------------------------------------------
(* The three window predicates of the notifier alone, applied once to a    *)
(* session that starts at 12:00, at any minute around its milestones       *)

WindowStart == Instant(2025, 10, 4, 12, 0)

MaxAround == 75

\* a session of three minutes has its start and end windows open together
WindowSessions ==
    {Session(D1, WindowStart, WindowStart + dur) : dur \in {3, 60}}

WindowConfigs ==
    [enabled : BOOLEAN, notify_start : BOOLEAN, notify_end : BOOLEAN,
     cleanup_enabled : {TRUE}]

InitWindow ==
    /\ now = T0
    /\ ctl = "init"
    /\ minutes_since_scrape = 0
    /\ sessions = <<>>
    /\ ical_file = NoCalendar
    /\ config \in {c \in Configs : c.enabled}
    /\ sent = Sent0
    /\ last = NoCycle
    /\ state_file = MissingFile
    /\ tracker = EmptyTracker
    /\ wpc = "idle"
    /\ hist = Hist0
    /\ p_in \in [session : WindowSessions,
                 t : (WindowStart - MaxAround)..(WindowStart + MaxAround),
                 cfg : WindowConfigs]
    /\ p_out = [k |-> "unset"]

\* Notifier.should_notify_upcoming / _start / _end with datetime.now() = p_in.t
EvalWindows ==
    /\ p_out.k = "unset"
    /\ p_out' = [k |-> "windows",
                 upcoming |-> ShouldNotifyUpcoming(p_in.cfg, p_in.session, p_in.t),
                 start |-> ShouldNotifyStart(p_in.cfg, p_in.session, p_in.t),
                 end |-> ShouldNotifyEnd(p_in.cfg, p_in.session, p_in.t)]
    /\ UNCHANGED <<now, ctl, minutes_since_scrape, tracker, state_file, wpc,
                   sessions, ical_file, config, sent, hist, last, p_in>>

NextWindow == EvalWindows

SpecWindow == InitWindow /\ [][NextWindow]_vars

\* now lies strictly inside the 5 minutes on either side of target
Within(t, target) == target - 5 < t /\ t < target + 5

\* C12: with notifications and the milestone enabled, each window predicate
\* is true exactly when now is less than 5 minutes away from its own target:
\* start minus the lead hours, start, end.
C12_WindowExactlyFiveMinutes ==
    p_out.k = "windows" /\ p_in.cfg.enabled =>
        /\ p_out.upcoming
              <=> Within(p_in.t, p_in.session.start_time - 60 * upcoming_hours)
        /\ p_in.cfg.notify_start
              => (p_out.start <=> Within(p_in.t, p_in.session.start_time))
        /\ p_in.cfg.notify_end
              => (p_out.end <=> Within(p_in.t, p_in.session.end_time))

\* C12 witness: four minutes after the start of a three-minute session the
\* start and end windows are open and the upcoming window is not.
C12_Witness ==
    /\ p_out.k = "windows"
    /\ p_in.t = p_in.session.start_time + 4
    /\ p_out.start /\ p_out.end /\ ~p_out.upcoming

\* what should_notify_upcoming answers for a session that starts n minutes
\* after now
UpcomingAt(n) ==
    p_out.k = "windows" /\ p_in.cfg.enabled
        /\ p_in.session.start_time - p_in.t = n
    => p_out.upcoming

NoUpcomingAt(n) ==
    p_out.k = "windows" /\ p_in.cfg.enabled
        /\ p_in.session.start_time - p_in.t = n
    => ~p_out.upcoming

\* C13 as stated: with upcoming_hours = 1 the upcoming milestone does not
\* fire for a session starting 61 minutes after now, fires for one starting
\* 58 minutes after now, and does not fire for one starting 70 minutes after.
C13_AsStated == NoUpcomingAt(61) /\ UpcomingAt(58) /\ NoUpcomingAt(70)

\* C13 amended: with upcoming_hours = 1 the upcoming milestone fires for a
\* session starting 61 minutes after now (one minute before the target) and
\* for one starting 58 minutes after now, and does not fire for one starting
\* 70 minutes after now.
C13_Amended == UpcomingAt(61) /\ UpcomingAt(58) /\ NoUpcomingAt(70)

\* C13 witness: the predicate was evaluated with notifications enabled for
\* a session starting 61 minutes after now, and it is true.
C13_Witness ==
    /\ p_out.k = "windows"
    /\ p_in.cfg.enabled
    /\ p_in.session.start_time - p_in.t = 61
    /\ p_out.upcoming

-----------------------------------------------------------------------------
(* Year and date of the instants parse() resolves (SpecParse)              *)

\* the descriptor's date in year y at the hour of time token tok
Naive(tok, date, y) == Instant(y, date.m, date.d, Hour24(tok), 0)

\* the year rule for one resolved instant: next year if the date at that
\* hour in the current year is before now, the current year otherwise
YearRule(tok, date, t, resolved) ==
    IF Naive(tok, date, YearOf(t)) < t
    THEN YearOf(resolved) = YearOf(t) + 1
    ELSE YearOf(resolved) = YearOf(t)

\* C14: for a descriptor whose date exists in the current year, each
\* resolved instant is in the next year if the date at the parsed hour in
\* the current year is strictly before now, and in the current year
\* otherwise.
C14_YearResolution ==
    /\ p_out.k = "ok"
    /\ InGrammar(p_in.x)
    /\ StrptimeOk(p_in.x.date, YearOf(p_in.t))
    => /\ YearRule(p_in.x.toks[1], p_in.x.date, p_in.t, p_out.v.start_time)
       /\ YearRule(p_in.x.toks[2], p_in.x.date, p_in.t, p_out.v.end_time)

\* C19: the start and the end of a resolved session lie on the same
\* calendar date, whatever the instant of the resolution.
C19_SameResolvedDate ==
    p_out.k = "ok" /\ InGrammar(p_in.x) =>
        DateOf(p_out.v.start_time) = DateOf(p_out.v.end_time)

-----------------------------------------------------------------------------
(* parse() applied twice to the same string, at two instants of one        *)
(* calendar day, as scrape_sessions does with a descriptor seen before     *)

ReparseShapes ==
    [parts : {2},
     toks : {<<[h |-> 12, ap |-> ""], [h |-> e, ap |-> "pm"]>> : e \in {1, 2}},
     date : {[d |-> 4, m |-> 10], [d |-> 5, m |-> 10], [d |-> 29, m |-> 2]}]

ReparseDays ==
    {Instant(2025, 1, 1, 0, 0), Instant(2025, 10, 4, 0, 0),
     Instant(2025, 12, 31, 0, 0)}

\* two instants of the same day, on the hour
ReparseInputs ==
    {[x |-> x, t |-> day + 60 * h1, t2 |-> day + 60 * h2] :
        x \in ReparseShapes, day \in ReparseDays,
        h1 \in 0..23, h2 \in 0..23}

InitReparse ==
    /\ now = T0
    /\ ctl = "init"
    /\ minutes_since_scrape = 0
    /\ sessions = <<>>
    /\ ical_file = NoCalendar
    /\ config \in {c \in Configs : c.enabled}
    /\ sent = Sent0
    /\ last = NoCycle
    /\ state_file = MissingFile
    /\ tracker = EmptyTracker
    /\ wpc = "idle"
    /\ hist = Hist0
    /\ p_in \in {i \in ReparseInputs : i.t <= i.t2}
    /\ p_out = [k |-> "unset"]

\* SessionParser.parse(session_str) with datetime.now() = p_in.t
ParseFirst ==
    /\ p_out.k = "unset"
    /\ p_out' = [k |-> "first", first |-> ParseTimes(p_in.x, p_in.t)]
    /\ UNCHANGED <<now, ctl, minutes_since_scrape, tracker, state_file, wpc,
                   sessions, ical_file, config, sent, hist, last, p_in>>

\* SessionParser.parse(session_str) again, with datetime.now() = p_in.t2
ParseSecond ==
    /\ p_out.k = "first"
    /\ p_out' = [k |-> "both", first |-> p_out.first,
                 second |-> ParseTimes(p_in.x, p_in.t2)]
    /\ UNCHANGED <<now, ctl, minutes_since_scrape, tracker, state_file, wpc,
                   sessions, ical_file, config, sent, hist, last, p_in>>

NextReparse == ParseFirst \/ ParseSecond

SpecReparse == InitReparse /\ [][NextReparse]_vars

\* C15: two resolutions of the same descriptor at two instants of the same
\* calendar day give the same start and the same end.
C15_ResolutionDeterministic ==
    p_out.k = "both" /\ DateOf(p_in.t) = DateOf(p_in.t2) =>
        p_out.first = p_out.second

-----------------------------------------------------------------------------
(* Retention: scrape and notification cycles in any order, 12 hours apart, *)
(* over nine days, with two sessions of which the first ends on day one    *)

RetentionDescs == {D1, D2, DRaise}

RetentionConfigs ==
    [enabled : {TRUE}, notify_start : {TRUE}, notify_end : {TRUE},
     cleanup_enabled : BOOLEAN]

\* what scrape() returns: any of the two sessions, or a string on which
\* parse raises (the cycle then ends before update_ical and the cleanup)
RetentionInputs ==
    {[exc |-> "none", session_type |-> "next", session_strings |-> b] :
        b \in {<<>>, <<D1>>, <<D2>>, <<D1, D2>>, <<DRaise>>}}

RetentionEnd == Instant(2025, 10, 4, 11, 0) + MaxRetentionTicks * RetentionStep

\* history of the retention model: the descriptors resolved into the working
\* set since the process started, whether the last cycle ran update_ical, and
\* the descriptors that entered the working set by the branch of descriptors
\* seen before
RetentionHist(resolved, ical_ran, reentered) ==
    [resolved |-> resolved, ical_ran |-> ical_ran, reentered |-> reentered]

\* the descriptors scrape_sessions adds by its else branch, lines 259-263
Reentered(m1) ==
    (Strs(m1.sessions) \ Strs(sessions)) \cap tracker.seen_sessions

InitRetention ==
    /\ now = Instant(2025, 10, 4, 11, 0)
    /\ ctl = "init"
    /\ minutes_since_scrape = 0
    /\ state_file = MissingFile
    /\ tracker = LoadState(MissingFile)
    /\ wpc = "idle"
    /\ sessions = <<>>
    /\ ical_file = NoCalendar
    /\ config \in RetentionConfigs
    /\ sent = [d \in RetentionDescs |-> [k \in Milestones |-> 0]]
    /\ hist = RetentionHist({}, FALSE, {})
    /\ last = NoCycle
    /\ p_in = [x |-> ShapeOf(D1), t |-> T0]
    /\ p_out = [k |-> "unset"]

\* run_scrape_cycle at instant t with input inp
RetentionScrapeAt(inp, t) ==
    \E m \in {RunScrapeCycle(M, config, inp, t)} :
        /\ Commit(m)
        /\ ctl' = AfterCycle(m.raised)
        /\ hist' = RetentionHist(
                      hist.resolved
                          \cup Strs(ScrapeSessions(M, config, inp, t).sessions),
                      ~m.raised,
                      hist.reentered
                          \cup Reentered(ScrapeSessions(M, config, inp, t)))

\* run(): the initial scrape
RetentionStart ==
    /\ ctl = "init"
    /\ \E inp \in RetentionInputs : RetentionScrapeAt(inp, now)
    /\ UNCHANGED <<now, minutes_since_scrape, config, wpc, last, p_in, p_out>>

\* a later scrape cycle
RetentionScrape ==
    /\ ctl = "loop"
    /\ now + RetentionStep <= RetentionEnd
    /\ now' = now + RetentionStep
    /\ \E inp \in RetentionInputs : RetentionScrapeAt(inp, now + RetentionStep)
    /\ UNCHANGED <<minutes_since_scrape, config, wpc, last, p_in, p_out>>

\* a later notification cycle
RetentionNotify ==
    /\ ctl = "loop"
    /\ now + RetentionStep <= RetentionEnd
    /\ now' = now + RetentionStep
    /\ \E m \in {RunNotificationCycle(M, config, [exc |-> "none"],
                                      now + RetentionStep)} :
          /\ Commit(m)
          /\ ctl' = AfterCycle(m.raised)
          /\ hist' = RetentionHist(hist.resolved, ~m.raised, hist.reentered)
    /\ UNCHANGED <<minutes_since_scrape, config, wpc, last, p_in, p_out>>

NextRetention == RetentionStart \/ RetentionScrape \/ RetentionNotify

SpecRetention == InitRetention /\ [][NextRetention]_vars

InCalendar(d) ==
    \E i \in 1..Len(ical_file.events) : ical_file.events[i].description = d

\* C17: after a calendar update, with retention cleanup enabled the
\* calendar holds no session that ended more than days_to_keep days ago,
\* and with it disabled the calendar holds every session resolved since
\* the process started.
C17_Retention ==
    hist.ical_ran =>
        /\ config.cleanup_enabled =>
              \A i \in 1..Len(ical_file.events) :
                  ical_file.events[i].dtend >= now - days_to_keep * 24 * 60
        /\ ~config.cleanup_enabled =>
              \A d \in hist.resolved : InCalendar(d)

-----------------------------------------------------------------------------
(* OctopusScraper.extract_sessions as a function of the page.  The page is *)
(* a sequence of pieces of text joined by single spaces.                   *)

NextHeading == "Next Sessions:"
LastHeading == "Last Session:"
LooseHeading == "Next Power Tower Session:"
NextPhrase == "Next Power Tower"
HeadingTag == "<h2>"
LineBreak == "<br>"
OtherText == "tbc"

PagePieces ==
    {NextHeading, LastHeading, LooseHeading, NextPhrase, HeadingTag,
     LineBreak, OtherText, D1, D2}

MaxPage == 4

Pages == UNION {[1..n -> PagePieces] : n \in 0..MaxPage}

\* re.search from a position: the index of the first piece of page after
\* index from that is in S, or 0
FirstAfter(page, from, S) ==
    IF \E i \in (from + 1)..Len(page) : page[i] \in S
    THEN CHOOSE i \in (from + 1)..Len(page) :
            /\ page[i] \in S
            /\ \A j \in (from + 1)..(i - 1) : page[j] \notin S
    ELSE 0

\* html_content[start_pos:start_pos + end_pos]: the pieces after index from
\* up to the first piece in Stops, or to the end of the page
BlockEnd(page, stop) == IF stop = 0 THEN Len(page) ELSE stop - 1

Block(page, from, Stops) ==
    SubSeq(page, from + 1, BlockEnd(page, FirstAfter(page, from, Stops)))

\* the descriptor grammar
\* \d+(?:am|pm)?-\d+(?:am|pm)?,\s*\w+\s*\d+(?:st|nd|rd|th)?\s*\w+
MatchesGrammar(piece) == piece \in {D1, D2}

\* re.findall of the grammar: every match, in page order, repeats included
FindAll(block) == SelectSeq(block, MatchesGrammar)

\* the loose pattern Next(?:\s+\w+)*\s+Sessions?:\s*([^<\n]+) needs at least
\* one character after the colon: the phrase at the very end of the page
\* does not match
LooseMatch(page) ==
    IF Len(page) = 0 THEN 0
    ELSE FirstAfter(SubSeq(page, 1, Len(page) - 1), 0, {LooseHeading})

Extracted(session_type, found) ==
    [session_type |-> session_type, found |-> found]

\* the branch of 'Last Session:' before the branch of 'Next Sessions:'
ExtractLastFirst(page) ==
    IF FirstAfter(page, 0, {LastHeading}) # 0
    THEN Extracted("last",
            FindAll(Block(page, FirstAfter(page, 0, {LastHeading}),
                          {HeadingTag, NextPhrase, LooseHeading})))
    ELSE IF FirstAfter(page, 0, {NextHeading}) # 0
    THEN Extracted("next",
            FindAll(Block(page, FirstAfter(page, 0, {NextHeading}),
                          {HeadingTag})))
    ELSE Extracted("none", <<>>)

\* extract_sessions up to the removal of duplicates: the three branches
Extract(page) ==
    IF FirstAfter(page, 0, {NextHeading}) # 0
    THEN Extracted("next",
            FindAll(Block(page, FirstAfter(page, 0, {NextHeading}),
                          {HeadingTag})))
    ELSE IF FirstAfter(page, 0, {LastHeading}) # 0
    THEN Extracted("last",
            FindAll(Block(page, FirstAfter(page, 0, {LastHeading}),
                          {HeadingTag, NextPhrase, LooseHeading})))
    ELSE IF LooseMatch(page) # 0
    THEN Extracted("next",
            FindAll(Block(page, LooseMatch(page), {HeadingTag, LineBreak})))
    ELSE Extracted("none", <<>>)

Range(q) == {q[i] : i \in 1..Len(q)}

\* list(set(sessions)): the distinct strings, in an order the hash seed
\* of the process decides
ListOfSet(found) ==
    {q \in NoDupSeqs(Range(found), Cardinality(Range(found))) :
        Len(q) = Cardinality(Range(found))}

\* what extract_sessions(page) can return
ExtractSessions(page) ==
    {[k |-> "extract", session_type |-> Extract(page).session_type,
      session_strings |-> q] : q \in ListOfSet(Extract(page).found)}

InitExtract ==
    /\ now = T0
    /\ ctl = "init"
    /\ minutes_since_scrape = 0
    /\ sessions = <<>>
    /\ ical_file = NoCalendar
    /\ config \in {c \in Configs : c.enabled}
    /\ sent = Sent0
    /\ last = NoCycle
    /\ state_file = MissingFile
    /\ tracker = EmptyTracker
    /\ wpc = "idle"
    /\ hist = Hist0
    /\ p_in \in [page : Pages]
    /\ p_out = [k |-> "unset"]

\* OctopusScraper.extract_sessions(p_in.page)
DoExtract ==
    /\ p_out.k = "unset"
    /\ p_out' \in ExtractSessions(p_in.page)
    /\ UNCHANGED <<now, ctl, minutes_since_scrape, tracker, state_file, wpc,
                   sessions, ical_file, config, sent, hist, last, p_in>>

NextExtract == DoExtract

SpecExtract == InitExtract /\ [][NextExtract]_vars

Has(page, piece) == \E i \in 1..Len(page) : page[i] = piece

\* the classification the priority of the rules gives to a page
Priority(page) ==
    IF Has(page, NextHeading) THEN "next"
    ELSE IF Has(page, LastHeading) THEN "last"
    ELSE IF \E i \in 1..(Len(page) - 1) : page[i] = LooseHeading THEN "next"
    ELSE "none"

\* C18: the classification is the one of the first rule, in the order
\* 'Next Sessions:' heading, 'Last Session:' heading, loose
\* 'Next ... Session:' line, that matches the page, and none when no rule
\* matches; with classification none the list is empty; the list never
\* holds the same descriptor twice.
C18_ExtractPriority ==
    p_out.k = "extract" =>
        /\ p_out.session_type = Priority(p_in.page)
        /\ p_out.session_type = "none" => p_out.session_strings = <<>>
        /\ \A i, j \in 1..Len(p_out.session_strings) :
              i # j => p_out.session_strings[i] # p_out.session_strings[j]

\* a page with both headings and the same descriptor twice under the
\* 'Next Sessions:' heading has been extracted
C18_Witness ==
    /\ p_out.k = "extract"
    /\ Has(p_in.page, NextHeading)
    /\ Has(p_in.page, LastHeading)
    /\ Len(Extract(p_in.page).found) = 2
    /\ Len(p_out.session_strings) = 1

-----------------------------------------------------------------------------
(* The notification sink: the process with two sessions of which one       *)
(* starts when the other ends, and a sink that fails for some kinds of     *)
(* notification in some cycles                                             *)

SinkDescs == {D1, D3}

\* the kinds of notification for which apprise.notify raises in a cycle
SinkFailures ==
    {{}, {"upcoming"}, {"start", "end"}, {"new", "upcoming", "start", "end"}}

SinkInputs ==
    {[exc |-> "none", session_type |-> "next", session_strings |-> b] :
        b \in {<<>>, <<D1>>, <<D1, D3>>}}

\* the milestones for which check_notifications at instant t sends: the
\* session has not ended, the flag is unset and the window is open
Due(tr, cfg, list, t) ==
    IF ~cfg.enabled THEN {}
    ELSE UNION {
        {<<list[i].session_str, "upcoming">> : i \in {j \in 1..Len(list) :
            /\ list[j].end_time >= t
            /\ TrackerShouldNotifyUpcoming(tr, list[j].session_str)
            /\ ShouldNotifyUpcoming(cfg, list[j], t)}},
        {<<list[i].session_str, "start">> : i \in {j \in 1..Len(list) :
            /\ list[j].end_time >= t
            /\ TrackerShouldNotifyStart(tr, list[j].session_str)
            /\ ShouldNotifyStart(cfg, list[j], t)}},
        {<<list[i].session_str, "end">> : i \in {j \in 1..Len(list) :
            /\ list[j].end_time >= t
            /\ TrackerShouldNotifyEnd(tr, list[j].session_str)
            /\ ShouldNotifyEnd(cfg, list[j], t)}}}

\* history of the sink model: whether the last cycle ran
\* check_notifications, the milestones that were due in it, the sends it
\* made, and every send that has failed so far
SinkHist(checked, due, attempted, failed) ==
    [checked |-> checked, due |-> due, attempted |-> attempted,
     failed |-> failed]

InitSink ==
    /\ now = T0
    /\ ctl = "init"
    /\ minutes_since_scrape = 0
    /\ state_file = MissingFile
    /\ tracker = LoadState(MissingFile)
    /\ wpc = "idle"
    /\ sessions = <<>>
    /\ ical_file = NoCalendar
    /\ config \in {c \in Configs : c.enabled}
    /\ sent = [d \in SinkDescs |-> [k \in Milestones |-> 0]]
    /\ hist = SinkHist(FALSE, {}, {}, {})
    /\ last = NoCycle
    /\ p_in = [x |-> ShapeOf(D1), t |-> T0]
    /\ p_out = [k |-> "unset"]

\* run_scrape_cycle at instant t
SinkScrapeAt(inp, failing, t) ==
    \E m \in {RunScrapeCycle([M EXCEPT !.failing = failing], config, inp, t)} :
        /\ Commit(m)
        /\ ctl' = AfterCycle(m.raised)
        /\ hist' = SinkHist(FALSE, {}, m.attempted, hist.failed \cup m.failed)

\* run(), lines 389-401: the initial scrape
SinkStart ==
    /\ ctl = "init"
    /\ \E inp \in SinkInputs, failing \in SinkFailures :
          SinkScrapeAt(inp, failing, now)
    /\ minutes_since_scrape' = scrape_interval
    /\ UNCHANGED <<now, config, wpc, last, p_in, p_out>>

\* run(), lines 403-414: a tick at which the scrape is due
SinkScrape ==
    /\ ctl = "loop"
    /\ now + notification_interval <= MaxNow
    /\ minutes_since_scrape + notification_interval >= scrape_interval
    /\ now' = now + notification_interval
    /\ \E inp \in SinkInputs, failing \in SinkFailures :
          SinkScrapeAt(inp, failing, now + notification_interval)
    /\ minutes_since_scrape' = 0
    /\ UNCHANGED <<config, wpc, last, p_in, p_out>>

\* run(), lines 415-418: a tick of the notification cycle
SinkNotify ==
    /\ ctl = "loop"
    /\ now + notification_interval <= MaxNow
    /\ minutes_since_scrape + notification_interval < scrape_interval
    /\ now' = now + notification_interval
    /\ \E failing \in SinkFailures :
       \E m \in {RunNotificationCycle([M EXCEPT !.failing = failing], config,
                                      [exc |-> "none"],
                                      now + notification_interval)} :
          /\ Commit(m)
          /\ ctl' = AfterCycle(m.raised)
          /\ hist' = SinkHist(TRUE,
                              Due(tracker, config, sessions,
                                  now + notification_interval),
                              m.attempted, hist.failed \cup m.failed)
    /\ minutes_since_scrape' = minutes_since_scrape + notification_interval
    /\ UNCHANGED <<config, wpc, last, p_in, p_out>>

NextSink == SinkStart \/ SinkScrape \/ SinkNotify

SpecSink == InitSink /\ [][NextSink]_vars

FlagSet(tr, d, kind) ==
    CASE kind = "upcoming" -> ~TrackerShouldNotifyUpcoming(tr, d)
      [] kind = "start" -> ~TrackerShouldNotifyStart(tr, d)
      [] kind = "end" -> ~TrackerShouldNotifyEnd(tr, d)

\* C20: after a notify-check, every milestone that was due in it (session
\* not ended, window open, flag unset) has been sent once and has its flag
\* set, whether the send failed or not, the process is still in its loop,
\* and no milestone whose send has failed has been sent a second time.
C20_FireAndForget ==
    /\ hist.checked =>
          /\ \A p \in hist.due :
                /\ p \in hist.attempted
                /\ FlagSet(tracker, p[1], p[2])
          /\ ctl = "loop"
    /\ \A p \in hist.failed : p[2] # "new" => sent[p[1]][p[2]] <= 1

\* a notify-check has run in which the start notification of D1 failed
\* while the upcoming notification of D3 was due too, after the upcoming
\* notification of D1 had failed in an earlier cycle
C20_Witness ==
    /\ hist.checked
    /\ <<D1, "start">> \in hist.due \cap hist.failed
    /\ <<D3, "upcoming">> \in hist.due
    /\ <<D1, "upcoming">> \in hist.failed

-----------------------------------------------------------------------------
(* The working set under SpecRetention: two descriptors enter it as newly  *)
(* seen, leave it by the cleanup and enter it again as seen before         *)

\* C21: the working set never holds two sessions with the same descriptor
\* string, and the calendar never holds two events for the same descriptor.
C21_OneSessionPerDescriptor ==
    /\ \A i, j \in 1..Len(sessions) :
          i # j => sessions[i].session_str # sessions[j].session_str
    /\ \A i, j \in 1..Len(ical_file.events) :
          i # j => ical_file.events[i].description
                      # ical_file.events[j].description

\* the working set holds D2, which entered as newly seen, and D1, which
\* entered as newly seen, was removed by the cleanup after its end and came
\* back as a descriptor seen before (resolved to the year after); the
\* calendar has been written with both
C21_Witness ==
    /\ Len(sessions) = 2
    /\ sessions[1].session_str = D2
    /\ sessions[2].session_str = D1
    /\ sessions[2].start_time > RetentionEnd
    /\ D1 \in hist.reentered
    /\ Len(ical_file.events) = 2

====
